---- MODULE Spec2Model ----
(***************************************************************************)
(* Step-composition layer of the Wisdom kernel method integrator           *)
(* (src/src/integrator_wkm.c): step_part1, step_part2, synchronize, reset. *)
(*                                                                         *)
(* Times are integers in units of dt/24, so that every rational            *)
(* coefficient of the scheme (5/8, 3/8, 1/2, 1/4, 1/8, 1/6, 1) is exact.   *)
(* The contents of the Coordinate Buffer are the reduced word of the       *)
(* primitive operators applied to it: drifts add up, kicks taken at the    *)
(* same positions add up, and an operator followed by its inverse          *)
(* vanishes.  Nothing else is assumed of the primitives.                   *)
(***************************************************************************)
EXTENDS Integers, Sequences, FiniteSets, TLC

VARIABLES
    t, dt, dt_last_done, N, gravity_ignore_terms, var_config_N,
    coordinates, keep_unsynchronized, recalculate_coordinates_this_timestep,
    corrector, safe_mode, is_synchronized,
    p_jh, particles, temp_pj, allocated_N,
    pc, op, pre, steps, ndone, nset, acct

vars == <<t, dt, dt_last_done, N, gravity_ignore_terms, var_config_N,
          coordinates, keep_unsynchronized, recalculate_coordinates_this_timestep,
          corrector, safe_mode, is_synchronized,
          p_jh, particles, temp_pj, allocated_N,
          pc, op, pre, steps, ndone, nset, acct>>

(* ------------------------------ bounds -------------------------------- *)

\* number of steps (step_part1 calls) explored
MaxSteps == 2
\* largest particle count
MaxN == 2
\* number of changes the caller makes to the configuration and to N
MaxSets == 2

\* one time step, in units of 1/24 of the time unit
DtUnit == 8 * 3
\* values of the time step dt
Dts == {DtUnit, -DtUnit}
\* values of the configuration integer ri_wkm->corrector (tens digit: kernel,
\* ones digit: corrector), with an invalid kernel above and one below range
Correctors == {-10, 0, 1, 10, 12, 20}

(* ----------------------- C integer arithmetic ------------------------- *)

\* C's a/10 on int: truncation towards zero
CDiv10(a) == IF a >= 0 THEN a \div 10 ELSE -((-a) \div 10)
\* C's a%10 on int: the sign of the dividend
CMod10(a) == a - 10 * CDiv10(a)

\* const int corrector = ri_wkm->corrector%10;
Corr(c) == CMod10(c)
\* const int kernel = ri_wkm->corrector/10;
Kernel(c) == CDiv10(c)

(* ----------------- coefficients and operator words -------------------- *)

\* A coefficient is a vector over the units: 1 = rational multiples of dt
\* (in 1/24), 2..6 = the five tabulated corrector constants times dt,
\* 7 = the constant of the second corrector layer times dt.
NUnits == 1 + 5 + 1
Zero == [i \in 1..NUnits |-> 0]
Unit(i, k) == [j \in 1..NUnits |-> IF j = i THEN k ELSE 0]
Add(c1, c2) == [i \in 1..NUnits |-> c1[i] + c2[i]]
Neg(c) == [i \in 1..NUnits |-> -c[i]]
Times(n, c) == [i \in 1..NUnits |-> n * c[i]]
\* a rational multiple num/den of the time d
Frac(num, den, d) == Unit(1, (num * d) \div den)

\* The Jacobi state: word of Kepler drifts and kicks, net centre-of-mass drift
J0 == [w |-> <<>>, com |-> 0]
NoJ == [w |-> <<>>, com |-> 0]
Letter(o, c, f, dd) == [op |-> o, k |-> c, fr |-> f, d |-> dd, p |-> NoJ, v |-> NoJ]

\* w followed by letter l, reduced
Mul(w, l) ==
    IF l.k = Zero THEN w
    ELSE IF /\ Len(w) > 0
            /\ w[Len(w)].op = l.op
            /\ l.op \in {"kep", "kick", "kickd"}
            /\ w[Len(w)].fr /\ l.fr
            /\ w[Len(w)].d = l.d
         THEN LET s == Add(w[Len(w)].k, l.k)
              IN IF s = Zero THEN SubSeq(w, 1, Len(w) - 1)
                 ELSE [w EXCEPT ![Len(w)].k = s]
         ELSE Append(w, l)

RECURSIVE Strip(_)
\* the word without its trailing kicks: kicks do not move positions
Strip(w) ==
    IF Len(w) > 0 /\ w[Len(w)].op \in {"kick", "kickd"}
    THEN Strip(SubSeq(w, 1, Len(w) - 1))
    ELSE w

\* the positions of a Jacobi state
PosOf(j) == [w |-> Strip(j.w), com |-> j.com]


(* ------------- primitive operators (external collaborators) ----------- *)
\* They act on m = [j, pos, vel, acc]: the Coordinate Buffer contents j and
\* the inertial particle array (positions, velocities, accelerations, each
\* named by the Jacobi state it was derived from).

\* reb_whfast_kepler_step(r, c): orbital drift of the Coordinate Buffer
kepler_step(m, c) == [m EXCEPT !.j.w = Mul(@, Letter("kep", c, TRUE, 0))]
\* reb_whfast_com_step(r, c): centre-of-mass drift; c is rational
com_step(m, c) == [m EXCEPT !.j.com = @ + c[1]]
\* reb_whfast_interaction_step(r, c): kick with the current accelerations
interaction_step(m, c) ==
    [m EXCEPT !.j.w = Mul(@, Letter("kick", c, m.acc = PosOf(m.j), 0))]
\* reb_transformations_jacobi_to_inertial_pos
jacobi_to_inertial_pos(m) == [m EXCEPT !.pos = PosOf(m.j)]
\* reb_transformations_jacobi_to_inertial_posvel
jacobi_to_inertial_posvel(m) == [m EXCEPT !.pos = PosOf(m.j), !.vel = m.j]
\* reb_update_acceleration: accelerations from the inertial positions
update_acceleration(m) == [m EXCEPT !.acc = m.pos]
\* reb_integrator_whfast_from_inertial: the Coordinate Buffer recomputed from
\* the particle array; exact round trip when positions and velocities stem
\* from one Jacobi state, a new state mixing the two otherwise
from_inertial(m) ==
    [m EXCEPT !.j =
        IF m.pos = PosOf(m.vel) THEN m.vel
        ELSE [w |-> <<[op |-> "mix", k |-> Zero, fr |-> FALSE, d |-> 0,
                       p |-> m.pos, v |-> m.vel]>>,
              com |-> 0]]

(* --------------------- sequences of primitives ------------------------ *)
\* An operation of this layer is the sequence of primitive calls it makes.

Ins(i, c) == [i |-> i, c |-> c]
KEP(c) == Ins("kep", c)
COM(c) == Ins("com", c)
KICK(c) == Ins("kick", c)
POS == Ins("pos", Zero)
POSVEL == Ins("posvel", Zero)
ACC == Ins("acc", Zero)
FROM == Ins("from_inertial", Zero)

\* p_j[i].x += prefac1 * temp_pj[i].ax: the positions displaced by c =
\* dt^2/12 times the accelerations computed before part2
Displace(m, c) ==
    [m EXCEPT !.j.w = Append(@, Letter("disp", c, m.acc = PosOf(m.j), 0))]

\* p_j[i].x = temp_pj[i].x: the displacement taken back; what remains is
\* the kick that was computed at the displaced positions
RestorePositions(m) ==
    LET w == m.j.w
        n == Len(w)
    IN IF n >= 2 /\ w[n - 1].op = "disp" /\ w[n].op = "kick"
       THEN [m EXCEPT !.j.w = Mul(SubSeq(w, 1, n - 2),
                                  Letter("kickd", w[n].k, w[n - 1].fr, w[n - 1].k[1]))]
       ELSE m

\* one primitive call
Exec(m, ins) ==
    CASE ins.i = "kep" -> kepler_step(m, ins.c)
      [] ins.i = "com" -> com_step(m, ins.c)
      [] ins.i = "kick" -> interaction_step(m, ins.c)
      [] ins.i = "pos" -> jacobi_to_inertial_pos(m)
      [] ins.i = "posvel" -> jacobi_to_inertial_posvel(m)
      [] ins.i = "acc" -> update_acceleration(m)
      [] ins.i = "from_inertial" -> from_inertial(m)
      [] ins.i = "displace" -> Displace(m, ins.c)
      [] ins.i = "restore" -> RestorePositions(m)

RECURSIVE RunRange(_, _, _, _)
RunRange(m, prog, lo, hi) ==
    IF lo > hi THEN m
    ELSE IF lo = hi THEN Exec(m, prog[lo])
    ELSE LET mid == (lo + hi) \div 2
             m1 == RunRange(m, prog, lo, mid)
         IN \* the first half is evaluated before the second half starts
            IF DOMAIN m1 # {} THEN RunRange(m1, prog, mid + 1, hi) ELSE m1

\* the calls of prog made in order on m
Run(m, prog) == RunRange(m, prog, 1, Len(prog))

(* ------------------------- corrector kernel Z ------------------------- *)

reb_wkm_corrector_Z(a, b) ==
    <<KEP(a), POS, ACC, KICK(Neg(b)),
      KEP(Times(-2, a)), POS, ACC, KICK(b),
      KEP(a)>>

\* number of tabulated coefficient pairs of the first corrector layer
NCorrCoef == 5

RECURSIVE CorrectorTerms(_, _, _)
\* terms i..2*NCorrCoef of the antisymmetric composition
\* Z(-a_5,-inv*b_5) .. Z(-a_1,-inv*b_1) Z(a_1,inv*b_1) .. Z(a_5,inv*b_5)
CorrectorTerms(inv, d, i) ==
    IF i > 2 * NCorrCoef THEN <<>>
    ELSE LET idx == IF i <= NCorrCoef THEN NCorrCoef + 1 - i ELSE i - NCorrCoef
             sgn == IF i <= NCorrCoef THEN -1 ELSE 1
         IN reb_wkm_corrector_Z(Unit(1 + idx, sgn * d), Unit(1 + idx, sgn * inv * d))
            \o CorrectorTerms(inv, d, i + 1)

\* reb_whfast_apply_corrector(r, inv, 11, reb_wkm_corrector_Z)
reb_whfast_apply_corrector(inv, d) == CorrectorTerms(inv, d, 1)

(* ----------------------- composition builders ------------------------- *)

reb_wkm_apply_C(a, b) ==
    <<KEP(a), COM(a), POS, ACC, KICK(b), KEP(Neg(a)), COM(Neg(a))>>

reb_wkm_apply_Y(a, b) ==
    reb_wkm_apply_C(a, b) \o reb_wkm_apply_C(Neg(a), Neg(b))

reb_wkm_apply_U(a, b) ==
    <<KEP(a), COM(a)>> \o reb_wkm_apply_Y(a, b) \o reb_wkm_apply_Y(a, Neg(b))
    \o <<KEP(Neg(a)), COM(Neg(a))>>

reb_wkm_apply_corrector2(d) ==
    LET a == Frac(1, 2, d)
        b == Unit(NUnits, d)
    IN reb_wkm_apply_U(a, b) \o reb_wkm_apply_U(Neg(a), b)

(* --------------------------- step_part1 ------------------------------- *)

JACOBI == "JACOBI"
Coordinates == {JACOBI, "DEMOCRATICHELIOCENTRIC"}

\* if (kernel>1)
KernelRejected(kernel) == kernel > 1

\* The configuration checks of reb_integrator_wkm_part1, in order
ConfigError(varN, coord, kernel) ==
    IF varN > 0 /\ coord # JACOBI THEN "variational"
    ELSE IF coord # JACOBI THEN "coordinates"
    ELSE IF KernelRejected(kernel) THEN "kernel"
    ELSE "none"

\* reb_integrator_whfast_init: fails (ok = FALSE) without effect, or makes
\* the Coordinate Buffer hold n particles and, when it had to be
\* (re)allocated, asks for its recalculation
reb_integrator_whfast_init(pj, n, rec, ok) ==
    IF ~ok THEN [fail |-> TRUE, p_jh |-> pj, rec |-> rec]
    ELSE IF pj.null \/ pj.n # n
         THEN [fail |-> FALSE, p_jh |-> [null |-> FALSE, n |-> n, j |-> pj.j], rec |-> 1]
         ELSE [fail |-> FALSE, p_jh |-> pj, rec |-> rec]

\* if (ri_wkm->safe_mode || ri_whfast->recalculate_coordinates_this_timestep)
Recalculate(safe, rec) == IF safe # 0 \/ rec # 0 THEN <<FROM>> ELSE <<>>

\* the pre-step corrector layers of part1
PreCorrector(corr, d) ==
    IF corr # 0
    THEN reb_whfast_apply_corrector(1, d)
         \o (IF corr >= 2 THEN reb_wkm_apply_corrector2(d) ELSE <<>>)
    ELSE <<>>

\* the leading drift of part1 in state SYNCHRONIZED
LeadingDrift(kernel, d) ==
    IF kernel = 0 THEN <<KEP(Frac(5, 8, d)), COM(Frac(5, 8, d))>>
    ELSE IF kernel = 1 THEN <<KEP(Frac(1, 2, d)), COM(Frac(1, 2, d))>>
    ELSE <<>>

\* if (ri_wkm->is_synchronized){..}else{..}
Part1Drift(isv, corr, kernel, d) ==
    IF isv # 0 THEN PreCorrector(corr, d) \o LeadingDrift(kernel, d)
    ELSE <<KEP(Frac(1, 1, d)), COM(Frac(1, 1, d))>>

\* the calls of part1 once the checks have passed
Part1Calls(safe, rec, isv, corr, kernel, d) ==
    Recalculate(safe, rec) \o Part1Drift(isv, corr, kernel, d) \o <<POSVEL>>

(* --------------------------- synchronize ------------------------------ *)

\* mutant: the state test left out
NeedsSync_mut(isv) == TRUE
\* if (ri_wkm->is_synchronized == 0)
NeedsSync(isv) == isv = 0

\* mutant: the trailing drift of the composition kernel for every kernel
TrailingDrift_mut(kernel, d) ==
    <<KEP(Frac(3, 8, d)), COM(Frac(3, 8, d))>>
\* the trailing drift of synchronize
TrailingDrift(kernel, d) ==
    IF kernel = 0 THEN <<KEP(Frac(3, 8, d)), COM(Frac(3, 8, d))>>
    ELSE IF kernel = 1 THEN <<KEP(Frac(1, 2, d)), COM(Frac(1, 2, d))>>
    ELSE <<>>

\* mutant: the post-step layers applied with the sign of the pre-step ones
PostCorrector_mut(corr, d) == PreCorrector(corr, d)
\* the post-step corrector layers of synchronize
PostCorrector(corr, d) ==
    IF corr # 0
    THEN reb_whfast_apply_corrector(-1, d)
         \o (IF corr >= 2 THEN reb_wkm_apply_corrector2(-d) ELSE <<>>)
    ELSE <<>>

\* the calls of synchronize in state UNSYNCHRONIZED
SyncCalls(corr, kernel, d) ==
    TrailingDrift(kernel, d) \o PostCorrector(corr, d) \o <<POSVEL>>

\* mutant: the snapshot is not copied back
SyncRestore_mut(m, keep, sync_pj) == m
\* memcpy(r->ri_whfast.p_jh,sync_pj,..) under keep_unsynchronized
SyncRestore(m, keep, sync_pj) ==
    IF keep # 0 THEN [m EXCEPT !.j = sync_pj] ELSE m

\* mutant: the flag is set under keep_unsynchronized too
SyncFlag_mut(isv, keep) == 1
\* }else{ ri_wkm->is_synchronized = 1; }
SyncFlag(isv, keep) == IF keep # 0 THEN isv ELSE 1

\* reb_integrator_wkm_synchronize on s = [m, is, git]
reb_integrator_wkm_synchronize(s, keep, c, d) ==
    IF NeedsSync(s.is)
    THEN LET sync_pj == s.m.j
             m1 == Run(s.m, SyncCalls(Corr(c), Kernel(c), d))
         IN [m |-> SyncRestore(m1, keep, sync_pj), is |-> SyncFlag(s.is, keep),
             git |-> 1]
    ELSE s

(* --------------------------- step_part2 ------------------------------- *)

\* mutant: the guard left out
BufferMissing_mut(pj) == FALSE
\* if (ri_whfast->p_jh==NULL)
BufferMissing(pj) == pj.null

\* one drift stage of the composition kernel
DriftStage(num, den, d) == <<KEP(Frac(num, den, d)), COM(Frac(num, den, d))>>
\* mutant: a kick stage that reuses the accelerations of the stage before
KickStage_mut(num, den, d) == <<KICK(Frac(num, den, d))>>
\* one kick stage with its force evaluation
KickStage(num, den, d) == <<POS, ACC, KICK(Frac(num, den, d))>>

\* kernel==0: the composition kernel
CompositionKernel(d) ==
    <<KICK(Frac(-1, 6, d))>>
    \o DriftStage(-1, 4, d) \o KickStage(1, 6, d)
    \o DriftStage(1, 8, d) \o KickStage(1, 1, d)
    \o DriftStage(-1, 8, d) \o KickStage(-1, 6, d)
    \o DriftStage(1, 4, d) \o KickStage(1, 6, d)

\* mutant: the Scratch Buffer only ever grows
ScratchStale_mut(alloc, n) == alloc < n
\* if (ri_wkm->allocated_N != N)
ScratchStale(alloc, n) == alloc # n

\* realloc of the Scratch Buffer to n particles; a request of size 0 may
\* return NULL (z) or a minimal block
ScratchRealloc(tp, alloc, n, z) ==
    IF ScratchStale(alloc, n)
    THEN [temp_pj |-> [null |-> (n = 0 /\ z), n |-> n], allocated_N |-> n]
    ELSE [temp_pj |-> tp, allocated_N |-> alloc]

\* indices of temp_pj the lazy implementer's kernel touches: the memcpy of
\* n particles and the two loops over i = 1 .. n-1
ScratchIndices(n) == (0 .. n - 1) \cup {i \in 1 .. n - 1 : TRUE}

\* for (unsigned int i=1;i<N;i++): the indices whose position is displaced
DisplacedIndices(n) == {i \in 0 .. n - 1 : i >= 1}
\* if (i>1): the indices that get the indirect term
IndirectIndices(n) == {i \in DisplacedIndices(n) : i > 1}
\* mutant: the restoring loop starts one index late
RestoredIndices_mut(n) == {i \in 0 .. n - 1 : i > 1}
\* for (unsigned int i=1;i<N;i++): the indices whose position is restored
RestoredIndices(n) == {i \in 0 .. n - 1 : i >= 1}

\* mutant: a kick with the accelerations computed before part2 comes first
LazyKernel_mut(d, n) ==
    <<KICK(Frac(1, 1, d)), Ins("displace", Unit(1, (d * d) \div 12)), POS, ACC,
      KICK(Frac(1, 1, d)), Ins("restore", Zero)>>
\* kernel==1: the lazy implementer's method on n particles; the positions
\* are back where they were only if every displaced index is restored
LazyKernel(d, n) ==
    (IF DisplacedIndices(n) # {}
     THEN <<Ins("displace", Unit(1, (d * d) \div 12))>> ELSE <<>>)
    \o <<POS, ACC, KICK(Frac(1, 1, d))>>
    \o (IF DisplacedIndices(n) # {} /\ DisplacedIndices(n) \subseteq RestoredIndices(n)
        THEN <<Ins("restore", Zero)>> ELSE <<>>)

\* the kernel branch of part2
ApplyKernel(kernel, d, n) ==
    IF kernel = 0 THEN CompositionKernel(d)
    ELSE IF kernel = 1 THEN LazyKernel(d, n)
    ELSE <<>>

\* ri_wkm->is_synchronized = 0; if (ri_wkm->safe_mode) synchronize
Part2Sync(m, git, safe, keep, c, d) ==
    LET s0 == [m |-> m, is |-> 0, git |-> git]
    IN IF safe # 0 THEN reb_integrator_wkm_synchronize(s0, keep, c, d) ELSE s0

\* mutant: the time is advanced once by part2 and once more
AdvanceTime_mut(tv, d) == tv + d + d
\* r->t+=r->dt
AdvanceTime(tv, d) == tv + d
\* r->dt_last_done = r->dt
LastDone(old, d) == d

(* ------------------------------ reset --------------------------------- *)

\* mutant: the pointer is freed but not cleared
ReleaseScratch_mut(tp) == tp
\* if (ri_wkm->temp_pj){ free; ri_wkm->temp_pj = NULL; }
ReleaseScratch(tp) == [null |-> TRUE, n |-> 0]

\* reb_integrator_whfast_reset: the drift/kick subsystem back to its
\* defaults, its Coordinate Buffer released
reb_integrator_whfast_reset(pj) == [null |-> TRUE, n |-> 0, j |-> J0]

(* ------------------------------ state --------------------------------- *)

NoOp == [name |-> "none", res |-> "none", tsz |-> -1, tidx |-> {}]
Op(n, r) == [name |-> n, res |-> r, tsz |-> -1, tidx |-> {}]

\* the program state, as kept in pre for the operation that ran last
Snap ==
    [t |-> t, dt |-> dt, dt_last_done |-> dt_last_done, N |-> N,
     gravity_ignore_terms |-> gravity_ignore_terms,
     var_config_N |-> var_config_N, coordinates |-> coordinates,
     keep_unsynchronized |-> keep_unsynchronized,
     recalculate_coordinates_this_timestep |-> recalculate_coordinates_this_timestep,
     corrector |-> corrector, safe_mode |-> safe_mode,
     is_synchronized |-> is_synchronized,
     p_jh |-> p_jh, particles |-> particles, temp_pj |-> temp_pj,
     allocated_N |-> allocated_N, op |-> op]

Mem == [j |-> p_jh.j, pos |-> particles.pos, vel |-> particles.vel,
        acc |-> particles.acc]
Particles(m) == [pos |-> m.pos, vel |-> m.vel, acc |-> m.acc]

\* the calls of prog include a corrector: its kicks are the only ones whose
\* time is not a rational multiple of dt
HasCorrector(prog) ==
    \E i \in 1 .. Len(prog) : prog[i].i = "kick" /\ prog[i].c[1] = 0

\* Account of the run: steady while neither reset nor a change of corrector
\* has followed the first step and the setup of the drift/kick subsystem
\* has not failed; last is the corrector application last
\* committed to the Coordinate Buffer, alt whether they alternated so far
NoAcct == [steady |-> TRUE, last |-> "none", alt |-> TRUE]
\* a pre-step application committed by part1
AcctPre(a, applied) ==
    IF applied THEN [a EXCEPT !.last = "pre", !.alt = a.alt /\ a.last # "pre"]
    ELSE a
\* a post-step application committed by synchronize
AcctPost(a, applied) ==
    IF applied THEN [a EXCEPT !.last = "post", !.alt = a.alt /\ a.last = "pre"]
    ELSE a
\* reset or a change of corrector, once a step was taken, and a failed
\* setup end a steady run
AcctBreak(a, started) == IF started THEN [a EXCEPT !.steady = FALSE] ELSE a

\* A fresh simulation with the defaults of reset, no buffer allocated
Init ==
    /\ t = 0 /\ dt \in Dts /\ dt_last_done = 0
    /\ N = MaxN
    /\ gravity_ignore_terms = 0 /\ var_config_N = 0
    /\ coordinates = JACOBI /\ keep_unsynchronized = 0
    /\ recalculate_coordinates_this_timestep = 0
    /\ corrector = 1 /\ safe_mode = 1 /\ is_synchronized = 1
    /\ p_jh = [null |-> TRUE, n |-> 0, j |-> J0]
    /\ particles = [pos |-> J0, vel |-> J0, acc |-> J0]
    /\ temp_pj = [null |-> TRUE, n |-> 0] /\ allocated_N = 0
    /\ pc = "idle" /\ op = NoOp /\ steps = 0
    /\ ndone = 0 /\ nset = 0 /\ acct = NoAcct
    /\ pre = [t |-> 0, dt |-> dt, dt_last_done |-> 0, N |-> N,
              gravity_ignore_terms |-> 0, var_config_N |-> 0,
              coordinates |-> JACOBI, keep_unsynchronized |-> 0,
              recalculate_coordinates_this_timestep |-> 0,
              corrector |-> 1, safe_mode |-> 1, is_synchronized |-> 1,
              p_jh |-> [null |-> TRUE, n |-> 0, j |-> J0],
              particles |-> [pos |-> J0, vel |-> J0, acc |-> J0],
              temp_pj |-> [null |-> TRUE, n |-> 0], allocated_N |-> 0,
              op |-> NoOp]

(* ----------------------------- operations ----------------------------- *)

\* reb_integrator_wkm_part1
Part1 ==
    /\ pc = "idle" /\ steps < MaxSteps
    /\ \E ok \in BOOLEAN :
        LET kernel == Kernel(corrector)
            corr == Corr(corrector)
            err == ConfigError(var_config_N, coordinates, kernel)
            ini == reb_integrator_whfast_init(p_jh, N,
                       recalculate_coordinates_this_timestep, ok)
            m3 == Run(Mem, Part1Calls(safe_mode, ini.rec, is_synchronized,
                                      corr, kernel, dt))
        IN /\ gravity_ignore_terms' = 1
           /\ acct' = IF err = "none" /\ ini.fail THEN AcctBreak(acct, TRUE)
                      ELSE AcctPre(acct, err = "none" /\
                               HasCorrector(Part1Calls(safe_mode, ini.rec,
                                   is_synchronized, corr, kernel, dt)))
           /\ IF err # "none"
              THEN /\ op' = Op("part1", err)
                   /\ UNCHANGED <<p_jh, particles,
                                  recalculate_coordinates_this_timestep>>
              ELSE IF ini.fail
              THEN /\ op' = Op("part1", "initfail")
                   /\ UNCHANGED <<p_jh, particles,
                                  recalculate_coordinates_this_timestep>>
              ELSE /\ op' = Op("part1", "ok")
                   /\ p_jh' = [ini.p_jh EXCEPT !.j = m3.j]
                   /\ particles' = Particles(m3)
                   /\ recalculate_coordinates_this_timestep' =
                          IF safe_mode # 0 \/ ini.rec # 0 THEN 0 ELSE ini.rec
    /\ pc' = "force" /\ steps' = steps + 1 /\ pre' = Snap
    /\ UNCHANGED nset
    /\ UNCHANGED <<t, dt, dt_last_done, N, var_config_N, coordinates,
                   keep_unsynchronized, corrector, safe_mode, is_synchronized,
                   temp_pj, allocated_N, ndone>>

\* the force evaluation between part1 and part2 (reb_update_acceleration);
\* its record keeps how the part1 of this step returned
ForceEval ==
    /\ pc = "force"
    /\ particles' = Particles(update_acceleration(Mem))
    /\ pc' = "part2" /\ op' = Op("force", op.res) /\ pre' = Snap
    /\ UNCHANGED acct
    /\ UNCHANGED nset
    /\ UNCHANGED <<t, dt, dt_last_done, N, gravity_ignore_terms, var_config_N,
                   coordinates, keep_unsynchronized,
                   recalculate_coordinates_this_timestep, corrector, safe_mode,
                   is_synchronized, p_jh, temp_pj, allocated_N, steps, ndone>>

\* reb_integrator_wkm_part2
Part2 ==
    /\ pc = "part2"
    /\ pc' = "idle" /\ pre' = Snap
    /\ IF BufferMissing(p_jh)
       THEN /\ op' = Op("part2", "nobuffer")
            /\ UNCHANGED <<t, dt_last_done, gravity_ignore_terms, is_synchronized,
                           p_jh, particles, temp_pj, allocated_N, ndone, acct>>
       ELSE \E z \in BOOLEAN :
            LET kernel == Kernel(corrector)
                sc == IF kernel = 1
                      THEN ScratchRealloc(temp_pj, allocated_N, N, z)
                      ELSE [temp_pj |-> temp_pj, allocated_N |-> allocated_N]
                m1 == Run(Mem, ApplyKernel(kernel, dt, N))
                s == Part2Sync(m1, gravity_ignore_terms, safe_mode,
                               keep_unsynchronized, corrector, dt)
            IN /\ temp_pj' = sc.temp_pj
               /\ allocated_N' = sc.allocated_N
               /\ p_jh' = [p_jh EXCEPT !.j = s.m.j]
               /\ particles' = Particles(s.m)
               /\ is_synchronized' = s.is
               /\ gravity_ignore_terms' = s.git
               /\ t' = AdvanceTime(t, dt)
               /\ dt_last_done' = LastDone(dt_last_done, dt)
               /\ ndone' = ndone + 1
               /\ acct' = AcctPost(acct, safe_mode # 0 /\ s.is = 1 /\
                      HasCorrector(SyncCalls(Corr(corrector), kernel, dt)))
               /\ op' = [name |-> "part2", res |-> "done",
                         tsz |-> IF kernel = 1 THEN sc.temp_pj.n ELSE -1,
                         tidx |-> IF kernel = 1 THEN ScratchIndices(N) ELSE {}]
    /\ UNCHANGED nset
    /\ UNCHANGED <<dt, N, var_config_N, coordinates, keep_unsynchronized,
                   recalculate_coordinates_this_timestep, corrector, safe_mode,
                   steps>>

\* reb_integrator_wkm_synchronize, called between steps
Synchronize ==
    /\ pc = "idle"
    /\ LET s0 == [m |-> Mem, is |-> is_synchronized, git |-> gravity_ignore_terms]
           s == reb_integrator_wkm_synchronize(s0, keep_unsynchronized, corrector, dt)
       IN /\ p_jh' = [p_jh EXCEPT !.j = s.m.j]
          /\ particles' = Particles(s.m)
          /\ is_synchronized' = s.is
          /\ gravity_ignore_terms' = s.git
          /\ acct' = AcctPost(acct, NeedsSync(is_synchronized) /\ s.is = 1 /\
                 HasCorrector(SyncCalls(Corr(corrector), Kernel(corrector), dt)))
          /\ op' = Op("synchronize",
                      IF ~NeedsSync(is_synchronized) THEN "noop"
                      ELSE IF keep_unsynchronized # 0 THEN "peek" ELSE "commit")
    /\ pre' = Snap
    /\ UNCHANGED nset
    /\ UNCHANGED <<t, dt, dt_last_done, N, var_config_N, coordinates,
                   keep_unsynchronized, recalculate_coordinates_this_timestep,
                   corrector, safe_mode, temp_pj, allocated_N, pc, steps, ndone>>

\* reb_integrator_wkm_reset
Reset ==
    /\ pc = "idle"
    /\ corrector' = 1
    /\ safe_mode' = 1
    /\ is_synchronized' = 1
    /\ p_jh' = reb_integrator_whfast_reset(p_jh)
    /\ coordinates' = JACOBI
    /\ keep_unsynchronized' = 0
    /\ recalculate_coordinates_this_timestep' = 0
    /\ temp_pj' = IF ~temp_pj.null THEN ReleaseScratch(temp_pj) ELSE temp_pj
    /\ allocated_N' = 0
    /\ op' = Op("reset", IF ~temp_pj.null THEN "freed" ELSE "nofree")
    /\ acct' = [AcctBreak(acct, steps > 0) EXCEPT !.last = "none"]
    /\ pre' = Snap
    /\ UNCHANGED nset
    /\ UNCHANGED <<t, dt, dt_last_done, N, gravity_ignore_terms, var_config_N,
                   particles, pc, steps, ndone>>

(* ------------------- the caller between two steps --------------------- *)

\* the configuration integer is changed in state SYNCHRONIZED only
SetCorrector ==
    /\ pc = "idle" /\ nset < MaxSets /\ is_synchronized = 1
    /\ \E c \in Correctors \ {corrector} : corrector' = c
    /\ op' = Op("set", "corrector") /\ pre' = Snap /\ nset' = nset + 1
    /\ acct' = AcctBreak(acct, steps > 0)
    /\ UNCHANGED <<t, dt, dt_last_done, N, gravity_ignore_terms, var_config_N,
                   coordinates, keep_unsynchronized,
                   recalculate_coordinates_this_timestep, safe_mode,
                   is_synchronized, p_jh, particles, temp_pj, allocated_N,
                   pc, steps, ndone>>

SetSafeMode ==
    /\ pc = "idle" /\ nset < MaxSets
    /\ safe_mode' = 1 - safe_mode
    /\ op' = Op("set", "safe_mode") /\ pre' = Snap /\ nset' = nset + 1
    /\ UNCHANGED acct
    /\ UNCHANGED <<t, dt, dt_last_done, N, gravity_ignore_terms, var_config_N,
                   coordinates, keep_unsynchronized,
                   recalculate_coordinates_this_timestep, corrector,
                   is_synchronized, p_jh, particles, temp_pj, allocated_N,
                   pc, steps, ndone>>

SetKeepUnsynchronized ==
    /\ pc = "idle" /\ nset < MaxSets
    /\ keep_unsynchronized' = 1 - keep_unsynchronized
    /\ op' = Op("set", "keep_unsynchronized") /\ pre' = Snap /\ nset' = nset + 1
    /\ UNCHANGED acct
    /\ UNCHANGED <<t, dt, dt_last_done, N, gravity_ignore_terms, var_config_N,
                   coordinates, recalculate_coordinates_this_timestep, corrector,
                   safe_mode, is_synchronized, p_jh, particles, temp_pj,
                   allocated_N, pc, steps, ndone>>

SetCoordinates ==
    /\ pc = "idle" /\ nset < MaxSets
    /\ \E c \in Coordinates, v \in {0, 1} :
        /\ <<c, v>> # <<coordinates, var_config_N>>
        /\ coordinates' = c /\ var_config_N' = v
    /\ op' = Op("set", "coordinates") /\ pre' = Snap /\ nset' = nset + 1
    /\ UNCHANGED acct
    /\ UNCHANGED <<t, dt, dt_last_done, N, gravity_ignore_terms,
                   keep_unsynchronized, recalculate_coordinates_this_timestep,
                   corrector, safe_mode, is_synchronized, p_jh, particles,
                   temp_pj, allocated_N, pc, steps, ndone>>

\* particles are removed between steps; they are added only while no
\* Coordinate Buffer is allocated
ChangeN ==
    /\ pc = "idle" /\ nset < MaxSets
    /\ \E n \in 0 .. MaxN :
        /\ n # N
        /\ p_jh.null \/ n <= p_jh.n
        /\ N' = n
    /\ op' = Op("set", "N") /\ pre' = Snap /\ nset' = nset + 1
    /\ UNCHANGED acct
    /\ UNCHANGED <<t, dt, dt_last_done, gravity_ignore_terms, var_config_N,
                   coordinates, keep_unsynchronized,
                   recalculate_coordinates_this_timestep, corrector, safe_mode,
                   is_synchronized, p_jh, particles, temp_pj, allocated_N,
                   pc, steps, ndone>>

Next ==
    \/ Part1 \/ ForceEval \/ Part2 \/ Synchronize \/ Reset
    \/ SetCorrector \/ SetSafeMode \/ SetKeepUnsynchronized
    \/ SetCoordinates \/ ChangeN

Spec == Init /\ [][Next]_vars

(* ------------------------------ claims -------------------------------- *)

Rejected == op.name = "part1" /\ op.res \in {"variational", "coordinates", "kernel"}

\* C1 (as claimed): a step_part1() rejected for a non-Jacobi coordinate
\* scheme or for kernel = 2 changes nothing: t, dt_last_done, the particle
\* array, the Coordinate Buffer, is_synchronized, the recalculation flag
\* and gravity_ignore_terms are as before the call.
C1_RejectionWithoutMutation ==
    (Rejected /\ (pre.coordinates # JACOBI \/ Kernel(pre.corrector) = 2)) =>
        /\ t = pre.t /\ dt_last_done = pre.dt_last_done
        /\ particles = pre.particles /\ p_jh = pre.p_jh
        /\ is_synchronized = pre.is_synchronized
        /\ recalculate_coordinates_this_timestep =
               pre.recalculate_coordinates_this_timestep
        /\ gravity_ignore_terms = pre.gravity_ignore_terms

\* C2 (as claimed): step_part1() gets past its validation only if the
\* decoded kernel is 0 or 1; with any other kernel, negative ones included,
\* it is rejected and neither the Coordinate Buffer nor the particle array
\* is touched.
C2_KernelValidation ==
    (op.name = "part1" /\ Kernel(pre.corrector) \notin {0, 1}) =>
        /\ Rejected
        /\ p_jh = pre.p_jh /\ particles = pre.particles

\* C3: step_part2() called without a Coordinate Buffer returns at its
\* guard and changes nothing.
C3_MissingBufferGuard ==
    (op.name = "part2" /\ pre.p_jh.null) =>
        /\ op.res = "nobuffer"
        /\ t = pre.t /\ dt_last_done = pre.dt_last_done
        /\ is_synchronized = pre.is_synchronized
        /\ p_jh = pre.p_jh /\ particles = pre.particles
        /\ temp_pj = pre.temp_pj /\ allocated_N = pre.allocated_N
        /\ gravity_ignore_terms = pre.gravity_ignore_terms
        /\ recalculate_coordinates_this_timestep =
               pre.recalculate_coordinates_this_timestep

\* C3 witness: the guard was taken with the lazy implementer's kernel
\* selected and safe_mode off
C3_Witness ==
    /\ op.name = "part2" /\ op.res = "nobuffer"
    /\ Kernel(corrector) = 1 /\ safe_mode = 0

\* C4 (as claimed): with safe_mode set, a completed step_part2() leaves
\* is_synchronized = 1, whatever keep_unsynchronized is.
C4_SafeModeSynchronized ==
    (op.name = "part2" /\ op.res = "done" /\ safe_mode # 0) =>
        is_synchronized = 1

\* C5: a second synchronize() right after a first one leaves the particle
\* positions and velocities, the Coordinate Buffer and is_synchronized as
\* the first call left them, and synchronize() in state SYNCHRONIZED
\* changes no field.
C5_SynchronizeIdempotent ==
    /\ (op.name = "synchronize" /\ pre.op.name = "synchronize") =>
           /\ particles.pos = pre.particles.pos
           /\ particles.vel = pre.particles.vel
           /\ p_jh = pre.p_jh
           /\ is_synchronized = pre.is_synchronized
    /\ (op.name = "synchronize" /\ pre.is_synchronized = 1) =>
           /\ op.res = "noop"
           /\ particles = pre.particles /\ p_jh = pre.p_jh
           /\ is_synchronized = 1
           /\ gravity_ignore_terms = pre.gravity_ignore_terms
           /\ t = pre.t /\ dt_last_done = pre.dt_last_done
           /\ temp_pj = pre.temp_pj /\ allocated_N = pre.allocated_N

\* C5 witness: the second of two synchronize() calls, the first of which
\* committed a step of the composition and the corrector layers
C5_Witness ==
    /\ op.name = "synchronize" /\ op.res = "noop"
    /\ pre.op.name = "synchronize" /\ pre.op.res = "commit"
    /\ Corr(corrector) # 0

\* C6: synchronize() in state UNSYNCHRONIZED under keep_unsynchronized
\* hands the synchronized positions and velocities to the particle array
\* and leaves the Coordinate Buffer as it was and the state UNSYNCHRONIZED;
\* without the policy the state becomes SYNCHRONIZED and the buffer is the
\* one the particle array was taken from. No third state exists.
C6_PeekWithoutCommit ==
    /\ is_synchronized \in {0, 1}
    /\ (op.name = "synchronize" /\ pre.is_synchronized = 0) =>
           /\ particles.pos = PosOf(particles.vel)
           /\ IF pre.keep_unsynchronized # 0
              THEN p_jh = pre.p_jh /\ is_synchronized = 0
              ELSE p_jh.j = particles.vel /\ is_synchronized = 1

\* C6 witness: a peek whose drift and correctors did move the state
C6_Witness ==
    /\ op.name = "synchronize" /\ op.res = "peek"
    /\ particles.vel # p_jh.j
    /\ Corr(corrector) # 0

\* C7: after reset() corrector = 1 (kernel 0), safe_mode = 1,
\* is_synchronized = 1, the Scratch Buffer is released and its tracked size
\* is 0; a second reset() changes nothing and frees nothing.
C7_ResetDefaults ==
    /\ op.name = "reset" =>
           /\ corrector = 1 /\ Kernel(corrector) = 0
           /\ safe_mode = 1 /\ is_synchronized = 1
           /\ temp_pj.null /\ allocated_N = 0
           /\ (op.res = "freed") = ~pre.temp_pj.null
    /\ (op.name = "reset" /\ pre.op.name = "reset") =>
           /\ op.res = "nofree"
           /\ [Snap EXCEPT !.op = pre.op] = pre

\* C7 witness: reset() in state UNSYNCHRONIZED with the Scratch Buffer
\* allocated and a configuration that is not the default
C7_Witness ==
    /\ op.name = "reset" /\ op.res = "freed"
    /\ pre.is_synchronized = 0 /\ pre.corrector # 1 /\ pre.safe_mode = 0

\* C8: whenever the lazy implementer's kernel has used the Scratch Buffer,
\* the buffer holds exactly N particles and every index used is below N;
\* only that kernel (and reset, which releases it) ever changes the buffer
\* or its tracked size.
C8_ScratchSizing ==
    /\ (op.name = "part2" /\ op.res = "done" /\ Kernel(corrector) = 1) =>
           /\ op.tsz = N /\ temp_pj.n = N /\ allocated_N = N
           /\ \A i \in op.tidx : 0 <= i /\ i < op.tsz
    /\ (temp_pj # pre.temp_pj \/ allocated_N # pre.allocated_N) =>
           \/ op.name = "part2" /\ op.res = "done" /\ Kernel(corrector) = 1
           \/ op.name = "reset"

\* C8 witness: the kernel ran on a Scratch Buffer that had been sized for
\* another particle count
C8_Witness ==
    /\ op.name = "part2" /\ op.res = "done" /\ Kernel(corrector) = 1
    /\ pre.allocated_N > 0 /\ pre.allocated_N # N /\ N > 0

\* C9: a step_part2() that passes its guard advances t by dt once and
\* sets dt_last_done to dt; step_part1(), synchronize() and reset() leave
\* both alone; so t is the number of completed steps times dt.
C9_TimeBookkeeping ==
    /\ (op.name = "part2" /\ ~pre.p_jh.null) =>
           /\ op.res = "done"
           /\ t = pre.t + pre.dt /\ dt_last_done = pre.dt
    /\ op.name \in {"part1", "synchronize", "reset"} =>
           t = pre.t /\ dt_last_done = pre.dt_last_done
    /\ t = ndone * dt

\* C9 witness: the last step of a run, taken with safe_mode set
C9_Witness ==
    /\ op.name = "part2" /\ op.res = "done"
    /\ ndone = MaxSteps /\ safe_mode # 0

\* a step has been started by step_part1() and step_part2() has not run
StepInProgress ==
    /\ pc # "idle"
    /\ \/ op.name = "part1" /\ op.res = "ok"
       \/ op.name = "force" /\ pre.op.name = "part1" /\ pre.op.res = "ok"

\* the Coordinate Buffer, when there is one, is the state the particle
\* array shows
BufferAgrees ==
    ~p_jh.null => particles.vel = p_jh.j /\ particles.pos = PosOf(p_jh.j)

\* C10 (as claimed): in every reachable state is_synchronized = 1 only if
\* every step that was started has been completed, so that nothing is
\* pending and the Coordinate Buffer agrees with the particle array.
C10_SynchronizedMeansComplete ==
    is_synchronized = 1 => ~StepInProgress /\ BufferAgrees

\* C10 (amended): between steps, is_synchronized = 1 only if the
\* Coordinate Buffer, when allocated, agrees with the particle array, and
\* a step_part2() leaves it 1 only through the committing synchronize() of
\* safe_mode.
C10_SynchronizedBetweenSteps ==
    (pc = "idle" /\ is_synchronized = 1) =>
        /\ BufferAgrees
        /\ (op.name = "part2" /\ op.res = "done") =>
               safe_mode # 0 /\ keep_unsynchronized = 0

\* C10 witness: SYNCHRONIZED between steps after a step with both
\* corrector layers was committed
C10_Witness ==
    /\ pc = "idle" /\ is_synchronized = 1 /\ ~p_jh.null
    /\ ndone > 0 /\ Corr(corrector) >= 2
    /\ op.name = "synchronize" /\ op.res = "commit"

(* ------------------- whole steps, as operator sequences ---------------- *)

\* part1 in state SYNCHRONIZED under safe_mode, the force evaluation, part2
\* and synchronize, with configuration integer c and step d
StepCalls(c, d) ==
    Part1Calls(1, 0, 1, Corr(c), Kernel(c), d)
    \o <<ACC>> \o ApplyKernel(Kernel(c), d, N)
    \o SyncCalls(Corr(c), Kernel(c), d)

\* the step with d followed by the step with -d
ThereAndBack(m, c, d) == Run(Run(m, StepCalls(c, d)), StepCalls(c, -d))

\* the pre-step layers of part1 followed by the post-step layers of
\* synchronize
PreThenPost(m, corr, d) ==
    Run(m, PreCorrector(corr, d) \o PostCorrector(corr, d))

\* a synchronized simulation with a Coordinate Buffer, between two steps
AtRest == pc = "idle" /\ is_synchronized = 1 /\ ~p_jh.null /\ BufferAgrees

\* C11 (as claimed): for kernel 0 and 1 and every corrector setting, a
\* step with dt followed by a step with -dt gives back the positions and
\* velocities it started from.
C11_Reversible ==
    (AtRest /\ Kernel(corrector) \in {0, 1}) =>
        LET m == ThereAndBack(Mem, corrector, dt)
        IN m.pos = particles.pos /\ m.vel = particles.vel

\* C11 (amended): with the lazy implementer's kernel and no corrector, a
\* step with dt followed by a step with -dt gives back the positions and
\* velocities it started from, and the Coordinate Buffer with them.
C11_ReversibleLazyKernel ==
    (AtRest /\ Kernel(corrector) = 1 /\ Corr(corrector) = 0) =>
        LET m == ThereAndBack(Mem, corrector, dt)
        IN m.pos = particles.pos /\ m.vel = particles.vel /\ m.j = p_jh.j

\* C11 witness: such a simulation after a completed step, whose next step
\* does move it
C11_Witness ==
    /\ AtRest /\ Kernel(corrector) = 1 /\ Corr(corrector) = 0
    /\ ndone > 0 /\ p_jh.j # J0
    /\ Run(Mem, StepCalls(corrector, dt)).vel # particles.vel

\* C12 (as claimed): for corrector = 1 and for corrector >= 2 the
\* pre-step layers followed by the post-step layers leave the Coordinate
\* Buffer unchanged.
C12_CorrectorSelfInverse ==
    (AtRest /\ Corr(corrector) >= 1) =>
        PreThenPost(Mem, Corr(corrector), dt).j = p_jh.j

\* C12 (amended): for corrector = 1 the pre-step layer followed by the
\* post-step layer leaves the Coordinate Buffer unchanged.
C12_FirstLayerSelfInverse ==
    (AtRest /\ Corr(corrector) = 1) =>
        PreThenPost(Mem, Corr(corrector), dt).j = p_jh.j

\* C12 witness: the first layer alone does change a buffer that holds a
\* completed step
C12_Witness ==
    /\ AtRest /\ Corr(corrector) = 1 /\ ndone > 0 /\ p_jh.j # J0
    /\ Run(Mem, PreCorrector(Corr(corrector), dt)).j # p_jh.j

\* C13 (as claimed): when step_part1() rejects the configuration, also
\* after earlier successful steps, the step_part2() of that step applies no
\* kick and no drift, leaves is_synchronized alone and does not advance t
\* or dt_last_done.
C13_AbortedStep ==
    (op.name = "part2" /\ pre.op.name = "force"
        /\ pre.op.res \in {"variational", "coordinates", "kernel"}) =>
        /\ p_jh = pre.p_jh
        /\ is_synchronized = pre.is_synchronized
        /\ t = pre.t /\ dt_last_done = pre.dt_last_done

RECURSIVE NetTime(_, _, _)
\* the sum, over the letters i.. of word w whose operator is in ops, of the
\* rational multiples of dt (correctors use other units, or cancel)
NetTime(w, ops, i) ==
    IF i > Len(w) THEN 0
    ELSE (IF w[i].op \in ops THEN w[i].k[1] ELSE 0) + NetTime(w, ops, i + 1)

NetDrift == NetTime(p_jh.j.w, {"kep"}, 1)
NetKick == NetTime(p_jh.j.w, {"kick", "kickd"}, 1)
NetComDrift == p_jh.j.com

\* the trailing drift a kernel leaves to synchronize(), as a time
TrailingTime(kernel, d) == IF kernel = 0 THEN (3 * d) \div 8 ELSE d \div 2

\* C14 (as claimed): with dt, kernel and corrector constant and no reset,
\* after n >= 1 completed steps the kernel's net drift, net com-drift and
\* net kick are n*dt each in state SYNCHRONIZED, and the net drift is n*dt
\* less the kernel's trailing drift in state UNSYNCHRONIZED.
C14_DriftKickAccounting ==
    (acct.steady /\ pc = "idle" /\ ndone >= 1 /\ ~p_jh.null
        /\ Kernel(corrector) \in {0, 1}) =>
        IF is_synchronized = 1
        THEN /\ NetDrift = ndone * dt
             /\ NetComDrift = ndone * dt
             /\ NetKick = ndone * dt
        ELSE NetDrift = ndone * dt - TrailingTime(Kernel(corrector), dt)

\* C15 (as claimed): with corrector != 0, part1 applies the pre-step
\* corrector exactly when it is entered in state SYNCHRONIZED, synchronize
\* applies the post-step corrector exactly when it is entered in state
\* UNSYNCHRONIZED, and the corrector applications committed to the
\* Coordinate Buffer alternate pre, post, pre, post, starting with pre.
C15_CorrectorPairing ==
    /\ (acct.steady /\ Corr(corrector) # 0) => acct.alt
    /\ (op.name = "part1" /\ op.res = "ok" /\ Corr(corrector) # 0) =>
           (HasCorrector(Part1Calls(pre.safe_mode,
                    pre.recalculate_coordinates_this_timestep,
                    pre.is_synchronized, Corr(corrector), Kernel(corrector), dt))
               <=> pre.is_synchronized = 1)
    /\ (op.name = "synchronize" /\ Corr(corrector) # 0) =>
           ((op.res # "noop" /\
             HasCorrector(SyncCalls(Corr(corrector), Kernel(corrector), dt)))
               <=> pre.is_synchronized = 0)

\* the Coordinate Buffer and the particle array before the last operation
PreMem == [j |-> pre.p_jh.j, pos |-> pre.particles.pos,
           vel |-> pre.particles.vel, acc |-> pre.particles.acc]

\* C16 (as claimed): with corrector >= 2 part1 applies the first layer and
\* then the second, and synchronize the inverse of the second layer first
\* and the inverse of the first layer last; with corrector = 1 only the
\* first layer is applied on each side, with corrector = 0 none.
C16_LayerOrder ==
    /\ (op.name = "part1" /\ op.res = "ok" /\ pre.is_synchronized = 1) =>
           PreCorrector(Corr(corrector), dt) =
               IF Corr(corrector) >= 2
               THEN reb_whfast_apply_corrector(1, dt)
                    \o reb_wkm_apply_corrector2(dt)
               ELSE IF Corr(corrector) = 1
               THEN reb_whfast_apply_corrector(1, dt)
               ELSE <<>>
    /\ (op.name = "synchronize" /\ op.res # "noop") =>
           particles.vel =
               Run(PreMem,
                   TrailingDrift(Kernel(corrector), dt)
                   \o (IF Corr(corrector) >= 2
                       THEN reb_wkm_apply_corrector2(-dt)
                            \o reb_whfast_apply_corrector(-1, dt)
                       ELSE IF Corr(corrector) = 1
                       THEN reb_whfast_apply_corrector(-1, dt)
                       ELSE <<>>)
                   \o <<POSVEL>>).vel

\* one call of a scan for stale kicks: st.pos and st.acc say whether the
\* inertial positions stem from the current Coordinate Buffer and whether
\* the accelerations were computed from such positions
ScanCall(st, prog, i) ==
    LET c == prog[i].i
    IN IF c = "kick"
       THEN (IF st.acc THEN st ELSE [st EXCEPT !.stale = @ \cup {i}])
       ELSE IF c \in {"pos", "posvel"} THEN [st EXCEPT !.pos = TRUE]
       ELSE IF c = "acc" THEN [st EXCEPT !.acc = st.pos]
       ELSE [st EXCEPT !.pos = FALSE, !.acc = FALSE]

RECURSIVE ScanRange(_, _, _, _)
ScanRange(st, prog, lo, hi) ==
    IF lo > hi THEN st
    ELSE IF lo = hi THEN ScanCall(st, prog, lo)
    ELSE LET mid == (lo + hi) \div 2
             st1 == ScanRange(st, prog, lo, mid)
         IN IF DOMAIN st1 # {} THEN ScanRange(st1, prog, mid + 1, hi) ELSE st1

\* the kicks among the calls of prog that do not use accelerations computed
\* inside prog from positions of the current Coordinate Buffer
StaleKicks(prog) ==
    ScanRange([pos |-> FALSE, acc |-> FALSE, stale |-> {}], prog, 1, Len(prog)).stale

\* the force evaluations and the kicks among the calls of prog
ForceEvals(prog) == {i \in 1 .. Len(prog) : prog[i].i = "acc"}
KickCalls(prog) == {i \in 1 .. Len(prog) : prog[i].i = "kick"}

\* C17: every kick of part1, of synchronize and of part2 uses forces
\* recomputed inside the operation from the current Coordinate Buffer, no
\* drift in between, but for the first kick of part2; the composition
\* kernel makes 4 force evaluations, the lazy implementer's 1, Z 2, C 1.
C17_FreshForces ==
    /\ (op.name = "part1" /\ op.res = "ok") =>
           StaleKicks(Part1Calls(pre.safe_mode,
                          pre.recalculate_coordinates_this_timestep,
                          pre.is_synchronized, Corr(corrector),
                          Kernel(corrector), dt)) = {}
    /\ (op.name = "synchronize" /\ op.res # "noop") =>
           StaleKicks(SyncCalls(Corr(corrector), Kernel(corrector), dt)) = {}
    /\ (op.name = "part2" /\ op.res = "done") =>
           LET prog == ApplyKernel(Kernel(corrector), dt, N)
           IN /\ StaleKicks(prog) \subseteq {1}
              /\ Kernel(corrector) = 0 =>
                     Cardinality(ForceEvals(prog)) = 4
              /\ Kernel(corrector) = 1 =>
                     Cardinality(ForceEvals(prog)) = 1
              /\ safe_mode # 0 =>
                     StaleKicks(SyncCalls(Corr(corrector), Kernel(corrector), dt)) = {}
    /\ Cardinality(ForceEvals(reb_wkm_corrector_Z(Unit(2, dt), Unit(2, dt)))) = 2
    /\ Cardinality(ForceEvals(reb_wkm_apply_C(Unit(1, dt), Unit(NUnits, dt)))) = 1

\* C17 witness: the composition kernel after a part1 that applied both
\* corrector layers
C17_Witness ==
    /\ op.name = "part2" /\ op.res = "done" /\ pre.op.res = "ok"
    /\ Kernel(corrector) = 0 /\ Corr(corrector) # 0
    /\ acct.last # "none"

\* C18 (as claimed): with kernel = 1 part2 applies a kick with the
\* accelerations computed before it, then the correction pass and the full
\* kick: two kicks per step, the first before any force evaluation.
C18_TwoKicks ==
    (op.name = "part2" /\ op.res = "done" /\ Kernel(corrector) = 1) =>
        LET prog == ApplyKernel(Kernel(corrector), dt, N)
        IN /\ Cardinality(KickCalls(prog)) = 2
           /\ \E k \in KickCalls(prog) : \A f \in ForceEvals(prog) : k < f

\* C18 (amended): with kernel = 1 part2 applies one kick per step, the
\* full kick over dt, after the correction pass; the accelerations computed
\* before part2 only displace the positions. With safe_mode off the
\* Coordinate Buffer after part2 is the one before it with that kick.
C18_OneKick ==
    (op.name = "part2" /\ op.res = "done" /\ Kernel(corrector) = 1) =>
        LET prog == ApplyKernel(Kernel(corrector), dt, N)
        IN /\ Cardinality(KickCalls(prog)) = 1
           /\ \A k \in KickCalls(prog) : \E f \in ForceEvals(prog) : f < k
           /\ safe_mode = 0 =>
                  p_jh.j.w = Mul(pre.p_jh.j.w,
                      IF DisplacedIndices(N) # {}
                      THEN Letter("kickd", Frac(1, 1, dt),
                                  pre.particles.acc = PosOf(pre.p_jh.j),
                                  (dt * dt) \div 12)
                      ELSE Letter("kick", Frac(1, 1, dt), TRUE, 0))

\* C18 witness: the lazy implementer's kernel with a displacement, left
\* UNSYNCHRONIZED
C18_Witness ==
    /\ op.name = "part2" /\ op.res = "done" /\ Kernel(corrector) = 1
    /\ safe_mode = 0 /\ is_synchronized = 0 /\ DisplacedIndices(N) # {}
    /\ p_jh.j # pre.p_jh.j

\* C19: with kernel = 1 and safe_mode off, the Jacobi positions in the
\* Coordinate Buffer after part2 are those before it, for every N; index 0
\* is never displaced, the indirect term goes to the indices above 1, and
\* every displaced index is restored.
C19_DisplacementTemporary ==
    (op.name = "part2" /\ op.res = "done" /\ Kernel(corrector) = 1
        /\ safe_mode = 0) =>
        /\ PosOf(p_jh.j) = PosOf(pre.p_jh.j)
        /\ 0 \notin DisplacedIndices(N)
        /\ IndirectIndices(N) = DisplacedIndices(N) \ {1}
        /\ DisplacedIndices(N) \subseteq RestoredIndices(N)
        /\ DisplacedIndices(N) \subseteq op.tidx

\* C19 witness: the force evaluation of the kernel saw displaced
\* positions, which the buffer no longer holds
C19_Witness ==
    /\ op.name = "part2" /\ op.res = "done" /\ Kernel(corrector) = 1
    /\ safe_mode = 0 /\ DisplacedIndices(N) # {}
    /\ particles.pos # PosOf(p_jh.j)
    /\ PosOf(p_jh.j) = PosOf(pre.p_jh.j)

\* C20 (as claimed): part1 recomputes the Coordinate Buffer from the
\* particle array only when it is entered in state SYNCHRONIZED.
C20_NoLossOfUnsynchronizedState ==
    (op.name = "part1" /\ op.res = "ok"
        /\ Recalculate(pre.safe_mode,
               reb_integrator_whfast_init(pre.p_jh, N,
                   pre.recalculate_coordinates_this_timestep, TRUE).rec) # <<>>) =>
        pre.is_synchronized = 1

====
